---- MODULE Spec2Model ----
(***************************************************************************)
(* Model of the track-metrics engine of gpx-analyzer (src/app/metrics.py). *)
(* and of the request handlers of src/app/main.py over the two tables of  *)
(* src/app/models.py (SpecDb).                                             *)
(*                                                                         *)
(* Units.  Floats are modelled exactly on a grid:                          *)
(*   - a timestamp is an integer number of ticks, TicksPerSec ticks to the *)
(*     second, so sub-second gaps exist and int(dt) truncates;             *)
(*   - points lie on one meridian, their latitude is an integer number of  *)
(*     steps of one metre of arc, so haversine is the absolute difference; *)
(*   - an elevation is an integer number of metres;                        *)
(*   - a speed or an average is the exact fraction [n, d] (n/d m/s).       *)
(* An Optional value is <<>> (None) or <<v>>.                              *)
(***************************************************************************)
EXTENDS Integers, Sequences, FiniteSets, TLC

\* ---- bounds of the model ----
MaxLen == 3
MaxT == 3
MaxLat == 1
MaxEle == 1

\* ticks per second of the timestamp grid (2: half seconds)
TicksPerSec == 2
MaxGaitT == 2

\* requests in flight at once, requests served in a run, distinct horse names
MaxProcs == 2
MaxRequests == 5
MaxNames == 2

\* moving_threshold_mps: float = 1.0, the default every caller leaves in place
DefaultMovingThreshold == 1

\* ---- Optional values ----
None == <<>>
Some(v) == <<v>>
IsNone(x) == x = <<>>
Val(x) == x[1]

\* ---- exact fractions standing for float results ----
Frac(n, d) == [n |-> n, d |-> d]
Zero == Frac(0, 1)
\* the ZeroDivisionError a float division by 0 raises: no value
ZeroDivisionError == Frac(0, 0)
Div(n, d) == IF d = 0 THEN ZeroDivisionError ELSE Frac(n, d)
FracGT(a, b) == a.n * b.d > b.n * a.d
FracGE(a, b) == a.n * b.d >= b.n * a.d
FracLT(a, b) == a.n * b.d < b.n * a.d
FracEQ(a, b) == a.n * b.d = b.n * a.d

Abs(x) == IF x < 0 THEN -x ELSE x

\* ---- class Point ----
Point == [t : {None} \cup {Some(k) : k \in 0..MaxT},
          lat : 0..MaxLat,
          lon : {0},
          ele : {None} \cup {Some(e) : e \in 0..MaxEle}]

\* the sequences of up to MaxLen points of P
TracksOf(P) == UNION {[1..n -> P] : n \in 0..MaxLen}

\* the point sequences handed to compute_metrics
Tracks == TracksOf(Point)

\* the points of a file without <ele> elements: p.elevation is None
TimedPoint == {p \in Point : IsNone(p.ele)}

\* the points of a file without <time> elements: p.time is None
ElevationPoint == {p \in Point : IsNone(p.t)}

\* haversine on one meridian: R * |dlat| in radians, one metre per step
haversine(lat1, lon1, lat2, lon2) == Abs(lat2 - lat1)

\* ---- compute_metrics: the loop body, statement by statement ----

\* line 71: if prev.t and cur.t (a datetime is always truthy)
BothTimes(prev, cur) == ~IsNone(prev.t) /\ ~IsNone(cur.t)

\* lines 70-72: dt in ticks; 0 when a timestamp is absent
PairDt(prev, cur) ==
    IF BothTimes(prev, cur) THEN Val(cur.t) - Val(prev.t) ELSE 0

\* int(dt) for dt > 0: truncation to whole seconds
IntSeconds(dt) == dt \div TicksPerSec

\* line 73: total_time_s += int(dt) if dt > 0 else 0
TotalTimeStep(total_time_s, prev, cur) ==
    IF BothTimes(prev, cur)
    THEN total_time_s + (IF PairDt(prev, cur) > 0 THEN IntSeconds(PairDt(prev, cur)) ELSE 0)
    ELSE total_time_s

\* line 69, 74: distance_m += d
PairDist(prev, cur) == haversine(prev.lat, prev.lon, cur.lat, cur.lon)

\* the accumulation slipped under the guard of line 84: only timed pairs count
DistanceStepInsideDt(distance_m, prev, cur) ==
    IF PairDt(prev, cur) > 0 THEN distance_m + PairDist(prev, cur) ELSE distance_m

DistanceStep(distance_m, prev, cur) == distance_m + PairDist(prev, cur)

\* line 77
BothEle(prev, cur) == ~IsNone(prev.ele) /\ ~IsNone(cur.ele)

\* lines 78-79: if de > 0: ascent += de
AscentStep(ascent, prev, cur) ==
    IF BothEle(prev, cur) /\ Val(cur.ele) - Val(prev.ele) > 0
    THEN ascent + (Val(cur.ele) - Val(prev.ele))
    ELSE ascent

\* a sign slip: the descent is accumulated with the sign of de
DescentStepSigned(descent, prev, cur) ==
    IF BothEle(prev, cur) /\ ~(Val(cur.ele) - Val(prev.ele) > 0)
    THEN descent + (Val(cur.ele) - Val(prev.ele))
    ELSE descent

\* lines 78, 80: else: descent += -de
DescentStep(descent, prev, cur) ==
    IF BothEle(prev, cur) /\ ~(Val(cur.ele) - Val(prev.ele) > 0)
    THEN descent + (-(Val(cur.ele) - Val(prev.ele)))
    ELSE descent

\* line 81, inside the block of line 77
MinEleStep(min_ele, prev, cur) ==
    IF BothEle(prev, cur) /\ (IsNone(min_ele) \/ Val(cur.ele) < Val(min_ele))
    THEN cur.ele ELSE min_ele

\* line 82, inside the block of line 77
MaxEleStep(max_ele, prev, cur) ==
    IF BothEle(prev, cur) /\ (IsNone(max_ele) \/ Val(cur.ele) > Val(max_ele))
    THEN cur.ele ELSE max_ele

\* line 85: v = d/dt, dt in seconds
PairSpeed(prev, cur) == Frac(PairDist(prev, cur) * TicksPerSec, PairDt(prev, cur))

\* lines 84-86: speed_series.append((cur.t or prev.t, v)) when dt > 0
SpeedSeriesStep(speed_series, prev, cur) ==
    IF PairDt(prev, cur) > 0
    THEN Append(speed_series,
                [t |-> IF ~IsNone(cur.t) THEN cur.t ELSE prev.t,
                 v |-> PairSpeed(prev, cur)])
    ELSE speed_series

\* line 87
MaxSpeedStep(max_speed_mps, prev, cur) ==
    IF PairDt(prev, cur) > 0 /\ FracGT(PairSpeed(prev, cur), max_speed_mps)
    THEN PairSpeed(prev, cur) ELSE max_speed_mps

\* line 88: if v >= moving_threshold_mps: moving_time_s += int(dt)
MovingTimeStep(moving_time_s, prev, cur, thr) ==
    IF PairDt(prev, cur) > 0 /\ FracGE(PairSpeed(prev, cur), Frac(thr, 1))
    THEN moving_time_s + IntSeconds(PairDt(prev, cur))
    ELSE moving_time_s

\* line 90: elev_series.append((cum_dist, float(cur.ele)))
ElevSeriesStep(elev_series, cum_dist, cur) ==
    IF ~IsNone(cur.ele)
    THEN Append(elev_series, [d |-> cum_dist, e |-> Val(cur.ele)])
    ELSE elev_series

\* the profile also records the first point
InitAccWithFirstPoint(pts) ==
    [distance_m |-> 0, total_time_s |-> 0, moving_time_s |-> 0,
     max_speed_mps |-> Zero, ascent |-> 0, descent |-> 0,
     min_ele |-> pts[1].ele, max_ele |-> pts[1].ele,
     speed_series |-> <<>>,
     elev_series |-> ElevSeriesStep(<<>>, 0, pts[1]),
     cum_dist |-> 0, prev |-> pts[1]]

\* lines 53-67: the locals before the loop
InitAcc(pts) ==
    [distance_m |-> 0, total_time_s |-> 0, moving_time_s |-> 0,
     max_speed_mps |-> Zero, ascent |-> 0, descent |-> 0,
     min_ele |-> pts[1].ele, max_ele |-> pts[1].ele,
     speed_series |-> <<>>, elev_series |-> <<>>,
     cum_dist |-> 0, prev |-> pts[1]]

\* lines 69-91: one iteration of the loop
LoopBody(acc, cur, thr) ==
    [distance_m |-> DistanceStep(acc.distance_m, acc.prev, cur),
     total_time_s |-> TotalTimeStep(acc.total_time_s, acc.prev, cur),
     moving_time_s |-> MovingTimeStep(acc.moving_time_s, acc.prev, cur, thr),
     max_speed_mps |-> MaxSpeedStep(acc.max_speed_mps, acc.prev, cur),
     ascent |-> AscentStep(acc.ascent, acc.prev, cur),
     descent |-> DescentStep(acc.descent, acc.prev, cur),
     min_ele |-> MinEleStep(acc.min_ele, acc.prev, cur),
     max_ele |-> MaxEleStep(acc.max_ele, acc.prev, cur),
     speed_series |-> SpeedSeriesStep(acc.speed_series, acc.prev, cur),
     elev_series |-> ElevSeriesStep(acc.elev_series,
                                    acc.cum_dist + PairDist(acc.prev, cur), cur),
     cum_dist |-> acc.cum_dist + PairDist(acc.prev, cur),
     prev |-> cur]

\* line 68: for cur in pts[1:]
RECURSIVE Loop(_, _, _, _)
Loop(acc, pts, i, thr) ==
    IF i > Len(pts) THEN acc
    ELSE Loop(LoopBody(acc, pts[i], thr), pts, i + 1, thr)

\* the guard also lets a zero time through
AvgSpeedNoGuard(distance_m, time_s) ==
    IF time_s >= 0 THEN Div(distance_m, time_s) ELSE Zero

\* lines 93-94: (distance_m / time_s) if time_s > 0 else 0.0
AvgSpeed(distance_m, time_s) ==
    IF time_s > 0 THEN Div(distance_m, time_s) ELSE Zero

\* line 52: the result for an empty sequence
EmptyMetrics ==
    [distance_m |-> 0, total_time_s |-> 0, moving_time_s |-> 0,
     avg_speed_mps |-> Zero, avg_moving_speed_mps |-> Zero,
     max_speed_mps |-> Zero, ascent_m |-> 0, descent_m |-> 0,
     min_elev_m |-> None, max_elev_m |-> None,
     start_time |-> None, end_time |-> None,
     speed_series |-> <<>>, elev_profile |-> <<>>]

\* lines 93-98: the Metrics built from the locals after the loop
MakeMetrics(acc, pts) ==
    [distance_m |-> acc.distance_m,
     total_time_s |-> acc.total_time_s,
     moving_time_s |-> acc.moving_time_s,
     avg_speed_mps |-> AvgSpeed(acc.distance_m, acc.total_time_s),
     avg_moving_speed_mps |-> AvgSpeed(acc.distance_m, acc.moving_time_s),
     max_speed_mps |-> acc.max_speed_mps,
     ascent_m |-> acc.ascent, descent_m |-> acc.descent,
     min_elev_m |-> acc.min_ele, max_elev_m |-> acc.max_ele,
     start_time |-> pts[1].t, end_time |-> pts[Len(pts)].t,
     speed_series |-> acc.speed_series,
     elev_profile |-> acc.elev_series]

\* lines 50-98
compute_metrics(pts, moving_threshold_mps) ==
    IF Len(pts) = 0 THEN EmptyMetrics
    ELSE MakeMetrics(Loop(InitAcc(pts), pts, 2, moving_threshold_mps), pts)

\* a float division by zero leaves the call with an exception
Raised(m) == m.avg_speed_mps.d = 0 \/ m.avg_moving_speed_mps.d = 0

\* ---- gait breakdown (spec section 4.3; its code is not among the sources) ----

Buckets == {"walk", "trot", "canter"}

\* section 4.2 step 2: the pair's dt in ticks, 1.0 second when dt <= 0
GaitPairDt(prev, cur) ==
    IF PairDt(prev, cur) > 0 THEN PairDt(prev, cur) ELSE TicksPerSec

\* section 9: classify(speed, lowT, highT) -> GaitBucket
classify(speed, lowT, highT) ==
    IF FracLT(speed, Frac(lowT, 1)) THEN "walk"
    ELSE IF FracLT(speed, Frac(highT, 1)) THEN "trot"
    ELSE "canter"

\* the bucket of a pair; a pair with an absent timestamp has no speed, and the
\* section does not say where its distance goes: undefBucket is that choice
PairBucket(prev, cur, lowT, highT, undefBucket) ==
    IF BothTimes(prev, cur)
    THEN classify(Frac(PairDist(prev, cur) * TicksPerSec, GaitPairDt(prev, cur)),
                  lowT, highT)
    ELSE undefBucket

RECURSIVE BucketDist(_, _, _, _, _, _)
BucketDist(p, i, b, lowT, highT, undefBucket) ==
    IF i < 2 THEN 0
    ELSE BucketDist(p, i - 1, b, lowT, highT, undefBucket)
         + (IF PairBucket(p[i-1], p[i], lowT, highT, undefBucket) = b
            THEN PairDist(p[i-1], p[i]) ELSE 0)

\* percentage of the total, 0 when the total distance is 0
GaitPct(part, total) == IF total = 0 THEN Zero ELSE Frac(100 * part, total)

NoGait ==
    [lowT |-> 0, highT |-> 0, walk_m |-> 0, trot_m |-> 0, canter_m |-> 0,
     walk_pct |-> Zero, trot_pct |-> Zero, canter_pct |-> Zero]

GaitBreakdown(p, lowT, highT, undefBucket) ==
    LET w == BucketDist(p, Len(p), "walk", lowT, highT, undefBucket)
        t == BucketDist(p, Len(p), "trot", lowT, highT, undefBucket)
        c == BucketDist(p, Len(p), "canter", lowT, highT, undefBucket)
    IN [lowT |-> lowT, highT |-> highT,
        walk_m |-> w, trot_m |-> t, canter_m |-> c,
        walk_pct |-> GaitPct(w, w + t + c),
        trot_pct |-> GaitPct(t, w + t + c),
        canter_pct |-> GaitPct(c, w + t + c)]

\* ---- the state machine: a caller holding a parsed track ----
VARIABLES pts, metrics, gait, pc

\* ---- the database behind the request handlers (models.py, db.py) ----
\* backend: the engine DATABASE_URL selects; horse, ride: the two tables;
\* horse_seq, ride_seq: the id sequences; req: the requests in flight, each
\* with the locals of its handler; started: the requests accepted so far
VARIABLES backend, horse, ride, horse_seq, ride_seq, req, started

dbvars == <<backend, horse, ride, horse_seq, ride_seq, req, started>>

enginevars == <<pts, metrics, gait, pc>>

vars == <<pts, metrics, gait, pc, backend, horse, ride, horse_seq, ride_seq, req, started>>

Procs == 1..MaxProcs

\* a worker with no request
IdleReq == [pc |-> "idle", name |-> 0, hid |-> None, sel |-> {}]

\* init_db on a fresh database: create_all leaves both tables empty
DbEmpty(b) ==
    /\ backend = b
    /\ horse = {}
    /\ ride = {}
    /\ horse_seq = 0
    /\ ride_seq = 0
    /\ req = [p \in Procs |-> IdleReq]
    /\ started = 0

\* a track of the family T has been parsed, nothing computed yet
InitOn(T) ==
    /\ pts \in T
    /\ metrics = EmptyMetrics
    /\ gait = NoGait
    /\ pc = "parsed"
    /\ DbEmpty("sqlite")

Init == InitOn(Tracks)

\* main.py lines 122, 195: metrics = compute_metrics(pts)
CallComputeMetrics ==
    /\ pc = "parsed"
    /\ metrics' = compute_metrics(pts, DefaultMovingThreshold)
    /\ pc' = IF Raised(compute_metrics(pts, DefaultMovingThreshold))
             THEN "raised" ELSE "computed"
    /\ UNCHANGED <<pts, gait>>
    /\ UNCHANGED dbvars

\* the second pass of section 4.3 over the same points
CallGaitBreakdown ==
    /\ pc = "computed"
    /\ \E lowT \in 1..MaxGaitT, highT \in 1..MaxGaitT, ub \in Buckets :
         /\ lowT < highT
         /\ gait' = GaitBreakdown(pts, lowT, highT, ub)
    /\ pc' = "classified"
    /\ UNCHANGED <<pts, metrics>>
    /\ UNCHANGED dbvars

Next == CallComputeMetrics \/ CallGaitBreakdown

\* every track up to MaxLen points
Spec == Init /\ [][Next]_vars

\* the same caller on the tracks of a file without <ele> elements
InitTimed == InitOn(TracksOf(TimedPoint))

SpecTimed == InitTimed /\ [][Next]_vars

\* the same caller on the tracks of a file without <time> elements
InitElevation == InitOn(TracksOf(ElevationPoint))

SpecElevation == InitElevation /\ [][Next]_vars

Returned == pc \in {"computed", "classified"}

\* ---- the request handlers of main.py, one action per database round ----

\* the horse names a form can carry; 0 is the empty horse_name
Names == 1..MaxNames

MaxIdOf(S) == IF S = {} THEN 0 ELSE CHOOSE x \in S : \A y \in S : x >= y

HorseIds == {h.id : h \in horse}
RideIds == {r.id : r \in ride}

\* models.py line 18: foreign_key="horse.id"; db.py lines 29-33 set no
\* PRAGMA foreign_keys, so only the postgresql engine enforces it
FkEnforced == backend = "postgresql"

\* the id of a new row: SQLite's rowid is max + 1, PostgreSQL draws a sequence
NewHorseId == IF backend = "sqlite" THEN MaxIdOf(HorseIds) + 1 ELSE horse_seq + 1
NewRideId == IF backend = "sqlite" THEN MaxIdOf(RideIds) + 1 ELSE ride_seq + 1

Accept(p) == req[p].pc = "idle" /\ started < MaxRequests /\ started' = started + 1

\* upload_gpx lines 124-128: horse = select(Horse).where(name == horse_name).first()
upload_gpx_lookup(p) ==
    /\ Accept(p)
    /\ \E nm \in Names \cup {0} :
         IF nm = 0
         THEN req' = [req EXCEPT ![p] = [IdleReq EXCEPT !.pc = "u_insert"]]
         ELSE IF \E h \in horse : h.name = nm
         THEN \E h \in horse :
                /\ h.name = nm
                /\ req' = [req EXCEPT ![p] =
                             [pc |-> "u_insert", name |-> nm, hid |-> Some(h.id), sel |-> {}]]
         ELSE req' = [req EXCEPT ![p] = [IdleReq EXCEPT !.pc = "u_create", !.name = nm]]
    /\ UNCHANGED <<backend, horse, ride, horse_seq, ride_seq>>
    /\ UNCHANGED enginevars

\* upload_gpx lines 129-130: horse = Horse(name); s.add; s.commit; s.refresh
upload_gpx_create_horse(p) ==
    /\ req[p].pc = "u_create"
    /\ horse' = horse \cup {[id |-> NewHorseId, name |-> req[p].name]}
    /\ horse_seq' = horse_seq + 1
    /\ req' = [req EXCEPT ![p].pc = "u_insert", ![p].hid = Some(NewHorseId)]
    /\ UNCHANGED <<backend, ride, ride_seq, started>>
    /\ UNCHANGED enginevars

\* upload_gpx lines 134-152: r = Ride(..., horse_id=horse.id if horse else None);
\* s.add(r); s.commit().  With the foreign key enforced the INSERT of a ride
\* whose horse is gone raises IntegrityError and nothing is stored.
upload_gpx_insert(p) ==
    /\ req[p].pc = "u_insert"
    /\ IF FkEnforced /\ ~IsNone(req[p].hid) /\ Val(req[p].hid) \notin HorseIds
       THEN UNCHANGED <<ride, ride_seq>>
       ELSE /\ ride' = ride \cup {[id |-> NewRideId, horse_id |-> req[p].hid]}
            /\ ride_seq' = ride_seq + 1
    /\ req' = [req EXCEPT ![p] = IdleReq]
    /\ UNCHANGED <<backend, horse, horse_seq, started>>
    /\ UNCHANGED enginevars

\* delete_ride lines 212-223: s.get(Ride, ride_id); s.delete(ride); s.commit()
delete_ride(p) ==
    /\ Accept(p)
    /\ \E r \in ride : ride' = ride \ {r}
    /\ UNCHANGED <<backend, horse, horse_seq, ride_seq, req>>
    /\ UNCHANGED enginevars

\* create_horse lines 292-294: the name is looked up first
create_horse_check(p) ==
    /\ Accept(p)
    /\ \E nm \in Names :
         /\ ~ \E h \in horse : h.name = nm
         /\ req' = [req EXCEPT ![p] = [IdleReq EXCEPT !.pc = "c_insert", !.name = nm]]
    /\ UNCHANGED <<backend, horse, ride, horse_seq, ride_seq>>
    /\ UNCHANGED enginevars

\* create_horse lines 295-296: h = Horse(name, notes); s.add(h); s.commit()
create_horse_insert(p) ==
    /\ req[p].pc = "c_insert"
    /\ horse' = horse \cup {[id |-> NewHorseId, name |-> req[p].name]}
    /\ horse_seq' = horse_seq + 1
    /\ req' = [req EXCEPT ![p] = IdleReq]
    /\ UNCHANGED <<backend, ride, ride_seq, started>>
    /\ UNCHANGED enginevars

\* update_horse lines 303-310: the row keeps its id, the name is replaced
update_horse(p) ==
    /\ Accept(p)
    /\ \E h \in horse, nm \in Names :
         horse' = (horse \ {h}) \cup {[id |-> h.id, name |-> nm]}
    /\ UNCHANGED <<backend, ride, horse_seq, ride_seq, req>>
    /\ UNCHANGED enginevars

\* delete_horse lines 315-318: h = s.get(Horse, horse_id);
\* rides = select(Ride).where(Ride.horse_id == horse_id).all()
delete_horse_select(p) ==
    /\ Accept(p)
    /\ \E h \in horse :
         req' = [req EXCEPT ![p] =
                   [pc |-> "d_commit", name |-> 0, hid |-> Some(h.id),
                    sel |-> {r.id : r \in {x \in ride : x.horse_id = Some(h.id)}}]]
    /\ UNCHANGED <<backend, horse, ride, horse_seq, ride_seq>>
    /\ UNCHANGED enginevars

\* delete_horse lines 319-322: r.horse_id = None for the selected rides;
\* s.delete(h); s.commit().  The flush updates the selected rides (a selected
\* ride deleted meanwhile matches no row: StaleDataError, rollback), nulls the
\* rides the relationship Horse.rides (models.py line 12) loads, and deletes h.
delete_horse_commit(p) ==
    /\ req[p].pc = "d_commit"
    /\ IF req[p].sel \subseteq RideIds
       THEN /\ ride' = {IF r.horse_id = req[p].hid
                         THEN [id |-> r.id, horse_id |-> None] ELSE r : r \in ride}
            /\ horse' = {h \in horse : h.id # Val(req[p].hid)}
       ELSE UNCHANGED <<horse, ride>>
    /\ req' = [req EXCEPT ![p] = IdleReq]
    /\ UNCHANGED <<backend, horse_seq, ride_seq, started>>
    /\ UNCHANGED enginevars

\* the handlers run on the event loop and in the worker threads, interleaved
NextDb ==
    \E p \in Procs :
        \/ upload_gpx_lookup(p)
        \/ upload_gpx_create_horse(p)
        \/ upload_gpx_insert(p)
        \/ delete_ride(p)
        \/ create_horse_check(p)
        \/ create_horse_insert(p)
        \/ update_horse(p)
        \/ delete_horse_select(p)
        \/ delete_horse_commit(p)

\* db.py lines 29-30: DATABASE_URL unset gives sqlite, else the engine it names
InitDb ==
    /\ pts = <<>>
    /\ metrics = EmptyMetrics
    /\ gait = NoGait
    /\ pc = "parsed"
    /\ \E b \in {"sqlite", "postgresql"} : DbEmpty(b)

SpecDb == InitDb /\ [][NextDb]_vars

\* ---- what the claims speak of, stated over the input, not over the loop ----

Pairs == 2..Len(pts)

RECURSIVE SumSet(_, _)
\* the sum of f over the finite set S of its domain
SumSet(f, S) ==
    IF S = {} THEN 0
    ELSE LET x == CHOOSE y \in S : TRUE IN f[x] + SumSet(f, S \ {x})

MinOf(S) == CHOOSE x \in S : \A y \in S : x <= y
MaxOf(S) == CHOOSE x \in S : \A y \in S : x >= y

\* the pairs whose two points are timestamped
TimedPairs == {i \in Pairs : BothTimes(pts[i-1], pts[i])}
\* the timestamp difference of pair i, in ticks
Gap(i) == Val(pts[i].t) - Val(pts[i-1].t)
NonPositivePairs == {i \in TimedPairs : Gap(i) <= 0}
PositivePairs == {i \in TimedPairs : Gap(i) > 0}

AllTimed == \A i \in 1..Len(pts) : ~IsNone(pts[i].t)
StrictlyIncreasing == \A i \in Pairs : Gap(i) > 0

\* C1 (as claimed): a pair with both timestamps and dt <= 0 is given dt = 1.0 s:
\* it has a speed entry distance / 1.0 at the later point's timestamp, and it
\* adds one second to the elapsed time (the other pairs add what line 73 adds).
C1_NonPositiveDtIsOneSecond ==
    Returned =>
        /\ \A i \in NonPositivePairs :
             \E k \in DOMAIN metrics.speed_series :
                /\ metrics.speed_series[k].t = pts[i].t
                /\ FracEQ(metrics.speed_series[k].v, Frac(PairDist(pts[i-1], pts[i]), 1))
        /\ metrics.total_time_s =
             SumSet([i \in PositivePairs |-> IntSeconds(Gap(i))], PositivePairs)
             + Cardinality(NonPositivePairs)

\* C2: for a sequence of length 0 or 1 compute_metrics returns, without error,
\* zero distance, times, speeds, ascent and descent, and two empty series.
C2_ShortTrackIsNeutral ==
    (pc # "parsed" /\ Len(pts) <= 1) =>
        /\ pc # "raised"
        /\ metrics.distance_m = 0
        /\ metrics.total_time_s = 0
        /\ metrics.moving_time_s = 0
        /\ metrics.avg_speed_mps = Zero
        /\ metrics.avg_moving_speed_mps = Zero
        /\ metrics.max_speed_mps = Zero
        /\ metrics.ascent_m = 0
        /\ metrics.descent_m = 0
        /\ metrics.speed_series = <<>>
        /\ metrics.elev_profile = <<>>

\* a single point with an elevation was computed
C2_Witness ==
    /\ pc = "computed"
    /\ Len(pts) = 1
    /\ ~IsNone(pts[1].ele)
    /\ metrics.min_elev_m = pts[1].ele

\* C3 (as claimed): when every point is timestamped and the timestamps strictly
\* increase, the elapsed time is the span from the first to the last timestamp,
\* also when the gaps are not whole seconds.
C3_ElapsedIsSpan ==
    (Returned /\ Len(pts) >= 2 /\ AllTimed /\ StrictlyIncreasing) =>
        metrics.total_time_s * TicksPerSec = Val(pts[Len(pts)].t) - Val(pts[1].t)

\* the best-effort timestamp of pair i: the later point's, else the earlier's
BestEffortTime(i) == IF ~IsNone(pts[i].t) THEN pts[i].t ELSE pts[i-1].t

\* C4 (as claimed): the speed series has one entry per consecutive pair, n-1 for
\* n >= 2 points, the entry of a pair carrying the pair's best-effort timestamp.
C4_OneSpeedEntryPerPair ==
    (Returned /\ Len(pts) >= 2) =>
        /\ Len(metrics.speed_series) = Len(pts) - 1
        /\ \A i \in Pairs : metrics.speed_series[i-1].t = BestEffortTime(i)

\* the elevations the track defines
DefinedEles == {Val(pts[i].ele) : i \in {j \in 1..Len(pts) : ~IsNone(pts[j].ele)}}

\* C5 (as claimed): min and max elevation are the minimum and the maximum over
\* every point with a defined elevation, whatever its neighbours have.
C5_MinMaxOverAllDefined ==
    (Returned /\ DefinedEles # {}) =>
        /\ metrics.min_elev_m = Some(MinOf(DefinedEles))
        /\ metrics.max_elev_m = Some(MaxOf(DefinedEles))

\* the pairs that have a speed and meet the moving threshold
MovingPairs ==
    {i \in PositivePairs :
        PairDist(pts[i-1], pts[i]) * TicksPerSec >= DefaultMovingThreshold * Gap(i)}

\* C6 (as claimed): moving time is the sum of dt over exactly the pairs whose
\* speed distance / dt is >= the threshold of 1.0 m/s, and never exceeds the elapsed time.
C6_MovingTimeIsSumOfDt ==
    Returned =>
        /\ metrics.moving_time_s * TicksPerSec =
             SumSet([i \in MovingPairs |-> Gap(i)], MovingPairs)
        /\ metrics.moving_time_s <= metrics.total_time_s

\* the pairs whose two points have an elevation, and their delta
ElePairs == {i \in Pairs : BothEle(pts[i-1], pts[i])}
De(i) == Val(pts[i].ele) - Val(pts[i-1].ele)

AllEle == \A i \in 1..Len(pts) : ~IsNone(pts[i].ele)
NonDecreasingEle == \A i \in Pairs : De(i) >= 0

\* C7: ascent is the sum of the positive deltas and descent the sum of the
\* absolute negative deltas over the pairs with both elevations (a pair with
\* an absent elevation adds nothing and blocks nothing); on a track whose
\* elevations are all defined and never fall, descent = 0 and ascent = last - first.
C7_AscentDescent ==
    Returned =>
        /\ metrics.ascent_m =
             SumSet([i \in ElePairs |-> IF De(i) > 0 THEN De(i) ELSE 0], ElePairs)
        /\ metrics.descent_m =
             SumSet([i \in ElePairs |-> IF De(i) < 0 THEN -De(i) ELSE 0], ElePairs)
        /\ (Len(pts) >= 1 /\ AllEle /\ NonDecreasingEle) =>
             /\ metrics.descent_m = 0
             /\ metrics.ascent_m = Val(pts[Len(pts)].ele) - Val(pts[1].ele)

\* a three-point track that never falls and does climb was computed
C7_Witness ==
    /\ pc = "computed"
    /\ Len(pts) = 3
    /\ AllEle /\ NonDecreasingEle
    /\ Val(pts[3].ele) > Val(pts[1].ele)
    /\ metrics.ascent_m > 0

\* C8: compute_metrics never raises on a division: average speed is
\* distance / elapsed when elapsed > 0 and 0 otherwise, average moving speed is
\* distance / moving time when moving time > 0 and 0 otherwise.
C8_AveragesGuarded ==
    /\ pc # "raised"
    /\ Returned =>
        /\ metrics.avg_speed_mps =
             (IF metrics.total_time_s > 0
              THEN Frac(metrics.distance_m, metrics.total_time_s) ELSE Zero)
        /\ metrics.avg_moving_speed_mps =
             (IF metrics.moving_time_s > 0
              THEN Frac(metrics.distance_m, metrics.moving_time_s) ELSE Zero)

\* a track with distance, equal timestamps on one pair and a missing timestamp
\* was computed: no elapsed time, so both averages took the zero branch
C8_Witness ==
    /\ pc = "computed"
    /\ Len(pts) = 3
    /\ metrics.distance_m > 0
    /\ NonPositivePairs # {}
    /\ ~AllTimed
    /\ metrics.total_time_s = 0
    /\ metrics.avg_speed_mps = Zero

C11_RideHorseExists ==
    \A r \in ride : IsNone(r.horse_id) \/ Val(r.horse_id) \in HorseIds

====
